---------------------------- MODULE Spec2Model ----------------------------
(***************************************************************************)
(* The discrete two-stream, non-scattering radiative transfer scheme of    *)
(* "Lecture08 -- Modeling non-scattering radiative transfer.ipynb":        *)
(* emissivity / transmissivity vectors, the transmissivity matrices        *)
(* (section 4 of the notebook, and the Transmissivity(eps) example cell)   *)
(* and the matrix form of the upwelling and downwelling beams.             *)
(*                                                                         *)
(* Numbers are exact rationals <<num, den>> in lowest terms (den > 0).     *)
(* Optical depth increments are whole multiples of ln 2, so that           *)
(* exp(-dtau) = 2^(-k) is computed exactly.                                *)
(***************************************************************************)
EXTENDS Integers, Sequences, FiniteSets, TLC

\* Largest number of layers N explored.
MaxN == 2
\* Largest optical depth increment of a layer, in units of ln 2.
MaxTau == 2
\* Largest number M of spectral bands explored.
MaxBands == 2
\* Largest number of layers of a column of the band model.
MaxBandN == 1
\* Largest number of solve calls made one after the other.
MaxCalls == 3
\* Largest number of layers of a column given to one of a series of calls.
MaxCallN == 1
\* Sample flux values (W/m2) for blackbody emissions and boundary fluxes.
Emissions == {0, 1, 3}

(***************************************************************************)
(* State.                                                                  *)
(***************************************************************************)
VARIABLES
    pc,         \* position in the calculation
    given,      \* "dtau": eps derived from optical depths; "eps": eps supplied
    N,          \* number of layers
    dtau,       \* optical depth increments (units of ln 2), layers 0..N-1
    eps,        \* absorptivity / emissivity vector, layers 0..N-1
    t,          \* transmissivity vector, N+1 elements
    Tup,        \* trans.Tup
    Tdown,      \* trans.Tdown
    E,          \* blackbody emissions E_0..E_{N-1}
    E_N,        \* incident flux at the TOA
    E_sfc,      \* surface emission
    alpha_sfc,  \* surface albedo
    D,          \* downwelling beam
    up_sfc,     \* upwelling flux leaving the surface
    U,          \* upwelling beam
    band,       \* band model: per band its optical depth, fraction b_j and beams
    order,      \* log of the steps / band tasks completed, in completion order
    calls       \* number of calls made so far

vars == <<pc, given, N, dtau, eps, t, Tup, Tdown, E, E_N, E_sfc, alpha_sfc,
          D, up_sfc, U, band, order, calls>>

(***************************************************************************)
(* Exact rational arithmetic (stands for the notebook's real arithmetic).  *)
(***************************************************************************)
Abs(x) == IF x < 0 THEN -x ELSE x

RECURSIVE GCD(_, _)
GCD(a, b) == IF b = 0 THEN a ELSE GCD(b, a % b)

Rat(n, d) == LET g == GCD(Abs(n), d) IN <<n \div g, d \div g>>

Zero == <<0, 1>>
One == <<1, 1>>

\* The operations divide out common factors before they multiply, so that
\* intermediate values stay small.
RAdd(x, y) ==
    LET g == GCD(x[2], y[2])
    IN  Rat(x[1] * (y[2] \div g) + y[1] * (x[2] \div g), (x[2] \div g) * y[2])
RSub(x, y) == RAdd(x, <<-y[1], y[2]>>)
RMul(x, y) ==
    LET g1 == GCD(Abs(x[1]), y[2])
        g2 == GCD(Abs(y[1]), x[2])
    IN  Rat((x[1] \div g1) * (y[1] \div g2), (x[2] \div g2) * (y[2] \div g1))
RLt(x, y) ==
    LET g == GCD(x[2], y[2])
    IN  x[1] * (y[2] \div g) < y[1] * (x[2] \div g)
RLe(x, y) ==
    LET g == GCD(x[2], y[2])
    IN  x[1] * (y[2] \div g) <= y[1] * (x[2] \div g)

\* Surface albedos explored: 0, 1/2 and 1.
Albedos == {Zero, Rat(1, 2), One}

(***************************************************************************)
(* Transmissivity and emissivity of one layer.                             *)
(***************************************************************************)
\* Variant: 1 / (1 + dtau) in place of the exponential.
ExpNegRational(k) == Rat(1, k + 1)

\* Variant: the exponent is off by one layer unit, exp(-(dtau + ln 2)).
ExpNegShifted(k) == Rat(1, 2 ^ (k + 1))

\* exp(-dtau) for dtau = k * ln 2.
ExpNeg(k) == Rat(1, 2 ^ k)

\* epsilon_0 = 1 - exp(-dtau)
Emissivity(k) == RSub(One, ExpNeg(k))

\* Variant: the absorptivity itself is stored as the transmissivity.
LayerTransmissivityAsAbsorptivity(e) == e

\* t_i = 1 - epsilon_i
LayerTransmissivity(e) == RSub(One, e)

\* Variant: the vector held from an earlier calculation is kept whenever it
\* has the right number of elements.
TransmissivityVectorByShape(e, n) ==
    IF DOMAIN t = 0..n
    THEN t
    ELSE [i \in 0..n |-> IF i = 0 THEN One ELSE RSub(One, e[i - 1])]

\* t = [1, t_0, t_1, ..., t_{N-1}], N+1 elements
TransmissivityVector(e, n) ==
    [i \in 0..n |-> IF i = 0 THEN One ELSE LayerTransmissivity(e[i - 1])]

\* Variant: only the last factor, no cumulative product.
ProdLastOnly(tv, a, b) == IF a > b THEN One ELSE tv[b]

\* t[a] * t[a+1] * ... * t[b]; the empty product is 1
RECURSIVE Prod(_, _, _)
Prod(tv, a, b) == IF a > b THEN One ELSE RMul(Prod(tv, a, b - 1), tv[b])

\* Variant: the matrix is copied without swapping its indices.
TransposeForgotten(M, n) == [i \in 0..n |-> [j \in 0..n |-> M[i][j]]]

Transpose(M, n) == [i \in 0..n |-> [j \in 0..n |-> M[j][i]]]

Identity(n) == [i \in 0..n |-> [j \in 0..n |-> IF i = j THEN One ELSE Zero]]

(***************************************************************************)
(* The transmissivity matrices as the notebook writes them:                *)
(* T_up lower triangular, T_down = T_up^T.                                 *)
(***************************************************************************)
T_up(tv, n) ==
    [i \in 0..n |-> [j \in 0..n |->
        IF i = j THEN One
        ELSE IF i > j THEN Prod(tv, j + 1, i)
        ELSE Zero]]

T_down(tv, n) == Transpose(T_up(tv, n), n)

(***************************************************************************)
(* The attributes of trans = Transmissivity(eps) as the example cell       *)
(* prints them: trans.Tup is upper triangular and trans.Tdown is its       *)
(* transpose.                                                              *)
(***************************************************************************)
TransTup(tv, n) ==
    [i \in 0..n |-> [j \in 0..n |->
        IF i = j THEN One
        ELSE IF i < j THEN Prod(tv, i + 1, j)
        ELSE Zero]]

TransTdown(tv, n) == Transpose(TransTup(tv, n), n)

(***************************************************************************)
(* Matrix-vector product over indices 0..n.                                *)
(***************************************************************************)
RECURSIVE Dot(_, _, _)
Dot(row, v, n) ==
    IF n < 0 THEN Zero ELSE RAdd(Dot(row, v, n - 1), RMul(row[n], v[n]))

MatVec(M, v, n) == [i \in 0..n |-> Dot(M[i], v, n)]

\* Variant: the incident flux at the TOA is left out of the last element.
E_downWithoutTOA(e, toa, n) == [i \in 0..n |-> IF i = n THEN Zero ELSE e[i]]

\* E_down = [E_0, E_1, ..., E_{N-1}, E_N], E_N the incident flux at the TOA
E_down(e, toa, n) == [i \in 0..n |-> IF i = n THEN toa ELSE e[i]]

\* E_up = [up_sfc, E_0, E_1, ..., E_{N-1}]
E_up(e, sfc, n) == [i \in 0..n |-> IF i = 0 THEN sfc ELSE e[i - 1]]

\* Variant: the reflected part of the downwelling beam is dropped.
UpSfcWithoutReflection(esfc, alpha, d0) == esfc

\* Variant: the whole back-radiation is reflected, whatever the albedo.
UpSfcAllReflected(esfc, alpha, d0) == RAdd(esfc, d0)

\* up_sfc = E_sfc + alpha_sfc * D[0]
UpSfc(esfc, alpha, d0) == RAdd(esfc, RMul(alpha, d0))

Empty == [i \in {} |-> Zero]

Init ==
    /\ pc = "start"
    /\ given = "none"
    /\ N = 0
    /\ dtau = Empty
    /\ eps = Empty
    /\ t = Empty
    /\ Tup = Empty
    /\ Tdown = Empty
    /\ E = Empty
    /\ E_N = Zero
    /\ E_sfc = Zero
    /\ alpha_sfc = Zero
    /\ D = Empty
    /\ up_sfc = Zero
    /\ U = Empty
    /\ band = <<>>
    /\ order = <<>>
    /\ calls = 1

\* A column of n layers with optical depth increments d: eps_i = 1 - exp(-dtau_i).
SetOpticalDepth ==
    /\ pc = "start"
    /\ \E n \in 0..MaxN : \E d \in [0..(n - 1) -> 0..MaxTau] :
        /\ N' = n
        /\ dtau' = d
        /\ eps' = [i \in 0..(n - 1) |-> Emissivity(d[i])]
    /\ given' = "dtau"
    /\ pc' = "eps"
    /\ UNCHANGED <<t, Tup, Tdown, E, E_N, E_sfc, alpha_sfc, D, up_sfc, U>>

\* eps = np.array([0.58, 0.58]): N = 2 layers and constant absorptivity.
SetAbsorptivity ==
    /\ pc = "start"
    /\ N' = 2
    /\ eps' = [i \in 0..1 |-> Rat(58, 100)]
    /\ dtau' = Empty
    /\ given' = "eps"
    /\ pc' = "eps"
    /\ UNCHANGED <<t, Tup, Tdown, E, E_N, E_sfc, alpha_sfc, D, up_sfc, U>>

\* trans = climlab.radiation.transmissivity.Transmissivity(eps)
Transmissivity ==
    /\ pc = "eps"
    /\ t' = TransmissivityVector(eps, N)
    /\ Tup' = TransTup(TransmissivityVector(eps, N), N)
    /\ Tdown' = TransTdown(TransmissivityVector(eps, N), N)
    /\ pc' = "trans"
    /\ UNCHANGED <<given, N, dtau, eps, E, E_N, E_sfc, alpha_sfc, D, up_sfc, U>>

\* D = T_down E_down.  The beams are written with the matrices of the markdown
\* cell (T_up lower triangular, T_down its transpose); no cell of the notebook
\* multiplies the attributes trans.Tup / trans.Tdown by an emission vector.
FluxDown ==
    /\ pc = "trans"
    /\ \E e \in [0..(N - 1) -> Emissions] : \E toa \in Emissions :
        /\ E' = [i \in 0..(N - 1) |-> Rat(e[i], 1)]
        /\ E_N' = Rat(toa, 1)
        /\ D' = MatVec(T_down(t, N),
                       E_down([i \in 0..(N - 1) |-> Rat(e[i], 1)], Rat(toa, 1), N),
                       N)
    /\ pc' = "down"
    /\ UNCHANGED <<given, N, dtau, eps, t, Tup, Tdown, E_sfc, alpha_sfc, up_sfc, U>>

\* up_sfc = E_sfc + alpha_sfc D[0]
SurfaceUp ==
    /\ pc = "down"
    /\ \E s \in Emissions : \E a \in Albedos :
        /\ E_sfc' = Rat(s, 1)
        /\ alpha_sfc' = a
        /\ up_sfc' = UpSfc(Rat(s, 1), a, D[0])
    /\ pc' = "sfc"
    /\ UNCHANGED <<given, N, dtau, eps, t, Tup, Tdown, E, E_N, D, U>>

\* U = T_up E_up
FluxUp ==
    /\ pc = "sfc"
    /\ U' = MatVec(T_up(t, N), E_up(E, up_sfc, N), N)
    /\ pc' = "done"
    /\ UNCHANGED <<given, N, dtau, eps, t, Tup, Tdown, E, E_N, E_sfc, alpha_sfc,
                   D, up_sfc>>

\* One calculation: the column, its transmissivities, then the two beams.
Next ==
    \/ SetOpticalDepth /\ UNCHANGED <<band, order, calls>>
    \/ SetAbsorptivity /\ UNCHANGED <<band, order, calls>>
    \/ Transmissivity /\ UNCHANGED <<band, order, calls>>
    \/ FluxDown /\ UNCHANGED <<band, order, calls>>
    \/ SurfaceUp /\ UNCHANGED <<band, order, calls>>
    \/ FluxUp /\ UNCHANGED <<band, order, calls>>

Spec == Init /\ [][Next]_vars

(***************************************************************************)
(* The sequential two-pass result for the inputs held in the state:        *)
(* D = T_down E_down, up_sfc = E_sfc + alpha_sfc D[0], U = T_up E_up.      *)
(***************************************************************************)
SeqD == MatVec(T_down(t, N), E_down(E, E_N, N), N)

SeqU == MatVec(T_up(t, N), E_up(E, UpSfc(E_sfc, alpha_sfc, SeqD[0]), N), N)

(***************************************************************************)
(* The two beams computed as two independent passes, in any order.  The    *)
(* upwelling pass has two steps (the surface flux, then the beam); the     *)
(* surface step reads D[0], which holds an arbitrary value as long as the  *)
(* downwelling pass has not written it.                                    *)
(***************************************************************************)
Unwritten == {Rat(x, 1) : x \in Emissions}

ParInputs ==
    /\ pc = "trans"
    /\ \E e \in [0..(N - 1) -> Emissions] : \E toa \in Emissions :
       \E s \in Emissions : \E a \in Albedos :
        /\ E' = [i \in 0..(N - 1) |-> Rat(e[i], 1)]
        /\ E_N' = Rat(toa, 1)
        /\ E_sfc' = Rat(s, 1)
        /\ alpha_sfc' = a
    /\ pc' = "par"
    /\ UNCHANGED <<given, N, dtau, eps, t, Tup, Tdown, D, up_sfc, U,
                   band, order, calls>>

ParDown ==
    /\ pc \in {"par", "par_sfc"}
    /\ D = Empty
    /\ D' = MatVec(T_down(t, N), E_down(E, E_N, N), N)
    /\ order' = Append(order, "D")
    /\ UNCHANGED <<pc, given, N, dtau, eps, t, Tup, Tdown, E, E_N, E_sfc,
                   alpha_sfc, up_sfc, U, band, calls>>

ParSurface ==
    /\ pc = "par"
    /\ \E d0 \in (IF D = Empty THEN Unwritten ELSE {D[0]}) :
        up_sfc' = UpSfc(E_sfc, alpha_sfc, d0)
    /\ pc' = "par_sfc"
    /\ order' = Append(order, "sfc")
    /\ UNCHANGED <<given, N, dtau, eps, t, Tup, Tdown, E, E_N, E_sfc,
                   alpha_sfc, D, U, band, calls>>

ParUp ==
    /\ pc = "par_sfc"
    /\ U = Empty
    /\ U' = MatVec(T_up(t, N), E_up(E, up_sfc, N), N)
    /\ order' = Append(order, "U")
    /\ UNCHANGED <<pc, given, N, dtau, eps, t, Tup, Tdown, E, E_N, E_sfc,
                   alpha_sfc, D, up_sfc, band, calls>>

ParJoin ==
    /\ pc = "par_sfc"
    /\ U # Empty
    /\ D # Empty
    /\ pc' = "done"
    /\ UNCHANGED <<given, N, dtau, eps, t, Tup, Tdown, E, E_N, E_sfc,
                   alpha_sfc, D, up_sfc, U, band, order, calls>>

NextPar ==
    \/ SetOpticalDepth /\ UNCHANGED <<band, order, calls>>
    \/ SetAbsorptivity /\ UNCHANGED <<band, order, calls>>
    \/ Transmissivity /\ UNCHANGED <<band, order, calls>>
    \/ ParInputs
    \/ ParDown
    \/ ParSurface
    \/ ParUp
    \/ ParJoin

SpecPar == Init /\ [][NextPar]_vars

(***************************************************************************)
(* Band-averaged model: M spectral bands, each solved with the grey gas    *)
(* formulas, the beams summed over all bands.                              *)
(***************************************************************************)
\* E_j(T) = b_j sigma T^4
BandEmission(b, e) == RMul(b, e)

RECURSIVE SumFractions(_, _)
SumFractions(b, m) == IF m = 0 THEN Zero ELSE RAdd(SumFractions(b, m - 1), b[m])

\* The fractions b_j must add up to one over all the bands.
BandFractions(m) ==
    {b \in [1..m -> {Rat(q, 4) : q \in 1..4}] : SumFractions(b, m) = One}

\* Boundary conditions explored for the band model: <<E_N, E_sfc, alpha_sfc>>.
\* E_N = 0 as for a longwave model; E_N > 0 (incident solar radiation) and a
\* reflecting surface as for a shortwave model.
BandBoundaries ==
    {<<Zero, Rat(3, 1), Zero>>, <<Rat(3, 1), Rat(1, 1), Rat(1, 2)>>}

\* Transmissivity vector of a band whose layers all have optical depth k.
BandT(k, n) == TransmissivityVector([i \in 0..(n - 1) |-> Emissivity(k)], n)

\* Blackbody emissions of band j: the fraction b of the column's emissions.
BandE(b, e, n) == [i \in 0..(n - 1) |-> BandEmission(b, e[i])]

\* The downwelling and upwelling beams of one band (the grey gas formulas).
BandD(k, b, e, toa, n) ==
    MatVec(T_down(BandT(k, n), n),
           E_down(BandE(b, e, n), BandEmission(b, toa), n), n)

BandU(k, b, e, toa, esfc, alpha, n) ==
    MatVec(T_up(BandT(k, n), n),
           E_up(BandE(b, e, n),
                UpSfc(BandEmission(b, esfc), alpha, BandD(k, b, e, toa, n)[0]),
                n),
           n)

\* Variant: the total is overwritten by the band's beam instead of added to.
VecAddOverwrites(a, b, n) == [i \in 0..n |-> b[i]]

\* Elementwise sum of two beams.
VecAdd(a, b, n) == [i \in 0..n |-> RAdd(a[i], b[i])]

\* U = sum of U_j, D = sum of D_j, taken in the order the band tasks completed.
RECURSIVE SumUInOrder(_)
SumUInOrder(k) ==
    IF k = 0 THEN [i \in 0..N |-> Zero]
    ELSE VecAdd(SumUInOrder(k - 1), band[order[k]].U, N)

RECURSIVE SumDInOrder(_)
SumDInOrder(k) ==
    IF k = 0 THEN [i \in 0..N |-> Zero]
    ELSE VecAdd(SumDInOrder(k - 1), band[order[k]].D, N)

\* The column, the boundary conditions and the bands of a banded model.
BandSetup ==
    /\ pc = "start"
    /\ \E n \in 0..MaxBandN : \E m \in 1..MaxBands :
       \E k \in [1..m -> 0..MaxTau] : \E b \in BandFractions(m) :
       \E e \in [0..(n - 1) -> Emissions] : \E bc \in BandBoundaries :
        /\ N' = n
        /\ E' = [i \in 0..(n - 1) |-> Rat(e[i], 1)]
        /\ E_N' = bc[1]
        /\ E_sfc' = bc[2]
        /\ alpha_sfc' = bc[3]
        /\ band' = [j \in 1..m |->
                      [tau |-> k[j], b |-> b[j], done |-> FALSE,
                       U |-> Empty, D |-> Empty]]
    /\ given' = "bands"
    /\ pc' = "bands"
    /\ UNCHANGED <<dtau, eps, t, Tup, Tdown, D, up_sfc, U, order, calls>>

\* The task of band j: both beams of the band, from the band's own inputs.
BandTask(j) ==
    /\ pc = "bands"
    /\ ~band[j].done
    /\ band' = [band EXCEPT
                  ![j].D = BandD(band[j].tau, band[j].b, E, E_N, N),
                  ![j].U = BandU(band[j].tau, band[j].b, E, E_N, E_sfc,
                                 alpha_sfc, N),
                  ![j].done = TRUE]
    /\ order' = Append(order, j)
    /\ UNCHANGED <<pc, given, N, dtau, eps, t, Tup, Tdown, E, E_N, E_sfc,
                   alpha_sfc, D, up_sfc, U, calls>>

\* To get the total flux, sum the beams over all bands.
BandSum ==
    /\ pc = "bands"
    /\ \A j \in DOMAIN band : band[j].done
    /\ U' = SumUInOrder(Len(order))
    /\ D' = SumDInOrder(Len(order))
    /\ pc' = "summed"
    /\ UNCHANGED <<given, N, dtau, eps, t, Tup, Tdown, E, E_N, E_sfc,
                   alpha_sfc, up_sfc, band, order, calls>>

NextBands ==
    \/ BandSetup
    \/ \E j \in DOMAIN band : BandTask(j)
    \/ BandSum

SpecBands == Init /\ [][NextBands]_vars

(***************************************************************************)
(* A series of solve calls.  Every variable keeps the value the previous   *)
(* call left in it until the current call overwrites it.  A call whose     *)
(* optical depths are those of the previous call reuses the transmissivity *)
(* vector and matrices held from that call; any other call rebuilds them.  *)
(***************************************************************************)
CallFresh ==
    /\ pc \in {"start", "done"}
    /\ pc = "done" => calls < MaxCalls
    /\ \E n \in 0..MaxCallN : \E d \in [0..(n - 1) -> 0..MaxTau] :
        /\ ~(pc = "done" /\ N = n /\ dtau = d)
        /\ N' = n
        /\ dtau' = d
        /\ eps' = [i \in 0..(n - 1) |-> Emissivity(d[i])]
        /\ t' = TransmissivityVector([i \in 0..(n - 1) |-> Emissivity(d[i])], n)
        /\ Tup' = TransTup(TransmissivityVector(
                               [i \in 0..(n - 1) |-> Emissivity(d[i])], n), n)
        /\ Tdown' = TransTdown(TransmissivityVector(
                                   [i \in 0..(n - 1) |-> Emissivity(d[i])], n), n)
    /\ calls' = IF pc = "done" THEN calls + 1 ELSE calls
    /\ given' = "dtau"
    /\ order' = <<"fresh">>
    /\ pc' = "call"
    /\ UNCHANGED <<E, E_N, E_sfc, alpha_sfc, D, up_sfc, U, band>>

CallCached ==
    /\ pc = "done"
    /\ calls < MaxCalls
    /\ calls' = calls + 1
    /\ order' = <<"cached">>
    /\ pc' = "call"
    /\ UNCHANGED <<given, N, dtau, eps, t, Tup, Tdown, E, E_N, E_sfc,
                   alpha_sfc, D, up_sfc, U, band>>

\* The two passes of one call: D = T_down E_down, up_sfc = E_sfc +
\* alpha_sfc D[0], U = T_up E_up.
CallFluxes ==
    /\ pc = "call"
    /\ \E e \in [0..(N - 1) -> Emissions] : \E bc \in BandBoundaries :
        LET ev == [i \in 0..(N - 1) |-> Rat(e[i], 1)]
            d == MatVec(T_down(t, N), E_down(ev, bc[1], N), N)
            s == UpSfc(bc[2], bc[3], d[0])
        IN  /\ E' = ev
            /\ E_N' = bc[1]
            /\ E_sfc' = bc[2]
            /\ alpha_sfc' = bc[3]
            /\ D' = d
            /\ up_sfc' = s
            /\ U' = MatVec(T_up(t, N), E_up(ev, s, N), N)
    /\ pc' = "done"
    /\ UNCHANGED <<given, N, dtau, eps, t, Tup, Tdown, band, order, calls>>

NextCalls ==
    \/ CallFresh
    \/ CallCached
    \/ CallFluxes

SpecCalls == Init /\ [][NextCalls]_vars

Built == pc \in {"trans", "down", "sfc", "done"}

Layers == 0..(N - 1)
Levels == 0..N

\* The optical depth increment of every layer is 0.
AllTransparent == given = "dtau" /\ \A i \in Layers : dtau[i] = 0

Row3(a, b, c) == (0 :> a @@ 1 :> b @@ 2 :> c)

\* Output of the example cell: "Matrix Tup is" / "Matrix Tdown is".
ExampleTup ==
    Row3(Row3(One, Rat(4200, 10000), Rat(1764, 10000)),
         Row3(Zero, One, Rat(4200, 10000)),
         Row3(Zero, Zero, One))

ExampleTdown ==
    Row3(Row3(One, Zero, Zero),
         Row3(Rat(4200, 10000), One, Zero),
         Row3(Rat(1764, 10000), Rat(4200, 10000), One))

(***************************************************************************)
(* C1: the downwelling matrix is the exact transpose of the upwelling      *)
(* matrix, Tdown[i][j] = Tup[j][i] for all 0 <= i, j <= N, both for the    *)
(* attributes of Transmissivity(eps) and for the matrices T_up, T_down of  *)
(* the matrix equations.                                                   *)
(***************************************************************************)
C1_TdownIsTransposeOfTup ==
    Built =>
        \A i \in Levels : \A j \in Levels :
            /\ Tdown[i][j] = Tup[j][i]
            /\ T_down(t, N)[i][j] = T_up(t, N)[j][i]

C1_Witness ==
    /\ Built
    /\ N = 2
    /\ Tup[0][2] = Rat(1, 8)
    /\ Tup[2][0] = Zero
    /\ Tdown[2][0] = Rat(1, 8)

(***************************************************************************)
(* C2: Tup is lower triangular with unit diagonal: Tup[i][i] = 1,          *)
(* Tup[i][j] = 0 for i < j, and Tup[i][j] = t[j+1] * ... * t[i] for i > j. *)
(***************************************************************************)
C2_TupLowerTriangular ==
    Built =>
        \A i \in Levels : \A j \in Levels :
            /\ (i = j => Tup[i][j] = One)
            /\ (i < j => Tup[i][j] = Zero)
            /\ (i > j => Tup[i][j] = Prod(t, j + 1, i))

C4_IdentityCase ==
    (Built /\ AllTransparent) => (Tup = Identity(N) /\ Tdown = Identity(N))

(***************************************************************************)
(* C4 amended: if every optical depth increment is 0 then every            *)
(* transmissivity is 1, and Tup and Tdown are transposes of each other     *)
(* with 1 on the diagonal, 1 in every entry of one triangle and 0 in every *)
(* entry of the other; they are the identity matrix only for N = 0.        *)
(***************************************************************************)
C4_TransparentCase ==
    (Built /\ AllTransparent) =>
        /\ \A i \in Levels : t[i] = One /\ Tup[i][i] = One /\ Tdown[i][i] = One
        /\ \A i \in Levels : \A j \in Levels : Tdown[i][j] = Tup[j][i]
        /\ \/ \A i \in Levels : \A j \in Levels :
                 i < j => (Tup[i][j] = One /\ Tup[j][i] = Zero)
           \/ \A i \in Levels : \A j \in Levels :
                 i < j => (Tup[i][j] = Zero /\ Tup[j][i] = One)
        /\ (Tup = Identity(N)) <=> (N = 0)
        /\ (Tdown = Identity(N)) <=> (N = 0)

C4_Witness ==
    /\ Built
    /\ AllTransparent
    /\ N = 2
    /\ Tup # Identity(N)

(***************************************************************************)
(* C5: single layer, E_sfc = 0, alpha_sfc = 0, no incident flux at the     *)
(* TOA, layer emission E_0 = E: the solver returns U[1] = eps * E and      *)
(* D[0] = eps * E.                                                         *)
(***************************************************************************)
C5_SingleLayerEmission ==
    (/\ pc = "done"
     /\ given = "dtau"
     /\ N = 1
     /\ E_sfc = Zero
     /\ alpha_sfc = Zero
     /\ E_N = Zero)
    => (U[1] = RMul(eps[0], E[0]) /\ D[0] = RMul(eps[0], E[0]))

(***************************************************************************)
(* C6: with alpha_sfc = 0 the surface upwelling flux is U[0] = E_sfc,      *)
(* whatever D, the layer emissions and the incident flux at the TOA are.   *)
(***************************************************************************)
C6_ZeroReflectionDecoupling ==
    (pc = "done" /\ alpha_sfc = Zero) => U[0] = E_sfc

C6_Witness ==
    /\ pc = "done"
    /\ alpha_sfc = Zero
    /\ N = 2
    /\ E_sfc = Rat(1, 1)
    /\ RLt(E_sfc, D[0])
    /\ U[0] = E_sfc

(***************************************************************************)
(* C7: if every optical depth increment is 0 the solver returns            *)
(* U[N] = up_sfc and D[0] = E_N for all emissions E_0..E_{N-1}.            *)
(***************************************************************************)
C7_PureTransmission ==
    (pc = "done" /\ AllTransparent) => (U[N] = up_sfc /\ D[0] = E_N)

(***************************************************************************)
(* C8: the transmissivity vector has N+1 entries and the emissivity vector *)
(* N entries; t[0] = 1, and every layer i has eps_i + t[i+1] = 1,          *)
(* 0 < t[i+1] <= 1 and 0 <= eps_i < 1.                                     *)
(***************************************************************************)
C8_EmissivityPlusTransmissivity ==
    Built =>
        /\ DOMAIN t = Levels
        /\ DOMAIN eps = Layers
        /\ t[0] = One
        /\ \A i \in Layers :
            /\ RAdd(eps[i], t[i + 1]) = One
            /\ RLt(Zero, t[i + 1]) /\ RLe(t[i + 1], One)
            /\ RLe(Zero, eps[i]) /\ RLt(eps[i], One)

C8_Witness ==
    /\ Built
    /\ given = "dtau"
    /\ N = 2
    /\ dtau[0] = 1
    /\ dtau[1] = 2
    /\ eps[1] = Rat(3, 4)
    /\ t[2] = Rat(1, 4)

(***************************************************************************)
(* C14: with no atmosphere (N = 0) the transmission matrices are the 1x1   *)
(* identity and the beams are single-element vectors holding the boundary  *)
(* values: D = [E_N] (the incident flux at the TOA) and                    *)
(* U = [E_sfc + alpha_sfc * D[0]].                                         *)
(***************************************************************************)
C14_NoAtmosphere ==
    (pc = "done" /\ N = 0) =>
        /\ Tup = Identity(0) /\ Tdown = Identity(0)
        /\ T_up(t, 0) = Identity(0) /\ T_down(t, 0) = Identity(0)
        /\ DOMAIN D = {0} /\ D[0] = E_N
        /\ DOMAIN U = {0} /\ U[0] = RAdd(E_sfc, RMul(alpha_sfc, D[0]))

C14_Witness ==
    /\ pc = "done"
    /\ N = 0
    /\ E_N = Rat(3, 1)
    /\ E_sfc = Rat(1, 1)
    /\ alpha_sfc = Rat(1, 2)
    /\ U[0] = Rat(5, 2)

\* The transmissivity and emissivity of layer i after doubling its optical depth.
DoubledT(i) == ExpNeg(2 * dtau[i])
DoubledEps(i) == Emissivity(2 * dtau[i])

(***************************************************************************)
(* C15 as stated: doubling every optical depth increment strictly          *)
(* decreases every t[i] (i > 0) and strictly increases every eps_i,        *)
(* including layers with dtau = 0.                                         *)
(***************************************************************************)
C15_ScalingLawStrict ==
    (Built /\ given = "dtau") =>
        \A i \in Layers :
            /\ RLt(DoubledT(i), t[i + 1])
            /\ RLt(eps[i], DoubledEps(i))

(***************************************************************************)
(* C15 amended: doubling every optical depth increment gives               *)
(* t(2 dtau) = t(dtau)^2 for every layer; t strictly decreases and eps     *)
(* strictly increases for every layer with dtau > 0, and both are          *)
(* unchanged (t = 1, eps = 0) for every layer with dtau = 0.               *)
(***************************************************************************)
C15_ScalingLaw ==
    (Built /\ given = "dtau") =>
        \A i \in Layers :
            /\ DoubledT(i) = RMul(t[i + 1], t[i + 1])
            /\ RAdd(DoubledEps(i), DoubledT(i)) = One
            /\ dtau[i] > 0 => (RLt(DoubledT(i), t[i + 1]) /\ RLt(eps[i], DoubledEps(i)))
            /\ dtau[i] = 0 => (DoubledT(i) = t[i + 1] /\ DoubledEps(i) = eps[i]
                               /\ t[i + 1] = One /\ eps[i] = Zero)

C15_Witness ==
    /\ Built
    /\ given = "dtau"
    /\ N = 2
    /\ dtau[0] = 0
    /\ dtau[1] = 1
    /\ DoubledT(1) = Rat(1, 4)
    /\ t[2] = Rat(1, 2)

(***************************************************************************)
(* C17: two-pass coupling.  D is computed first, then                      *)
(* up_sfc = E_sfc + alpha_sfc * D[0] from that D, then U with              *)
(* U[0] = E_up[0] = up_sfc.  Choosing E_sfc and alpha_sfc and computing U  *)
(* leave D unchanged, and D is a function of t, E and E_N alone.           *)
(***************************************************************************)
C17_TwoPassCoupling ==
    [][/\ (D' # D) => (pc = "trans" /\ pc' = "down")
       /\ (up_sfc' # up_sfc \/ E_sfc' # E_sfc \/ alpha_sfc' # alpha_sfc)
            => (pc = "down" /\ pc' = "sfc" /\ D' = D)
       /\ (pc = "down" /\ pc' = "sfc")
            => up_sfc' = RAdd(E_sfc', RMul(alpha_sfc', D[0]))
       /\ (U' # U) => (pc = "sfc" /\ pc' = "done" /\ D' = D)
       /\ (pc' = "done")
            => /\ U'[0] = up_sfc'
               /\ U'[0] = RAdd(E_sfc', RMul(alpha_sfc', D'[0]))
               /\ D' = MatVec(T_down(t', N'), E_down(E', E_N', N'), N')
      ]_vars

C17_Witness ==
    /\ pc = "done"
    /\ N = 2
    /\ alpha_sfc = Rat(1, 2)
    /\ E_sfc = Rat(1, 1)
    /\ D[0] = Rat(3, 1)
    /\ U[0] = Rat(5, 2)

(***************************************************************************)
(* C18: the matrix form satisfies the discretized two-stream equations:    *)
(* for every layer i, U[i+1] = t_i U[i] + eps_i E_i and                    *)
(* D[i] = t_i D[i+1] + eps_i E_i, with U[0] = up_sfc and D[N] = E_N.       *)
(***************************************************************************)
C18_TwoStreamEquations ==
    (pc = "done") =>
        /\ U[0] = up_sfc
        /\ D[N] = E_N
        /\ \A i \in Layers :
            /\ U[i + 1] = RAdd(RMul(t[i + 1], U[i]), RMul(eps[i], E[i]))
            /\ D[i] = RAdd(RMul(t[i + 1], D[i + 1]), RMul(eps[i], E[i]))

(***************************************************************************)
(* C12: with alpha_sfc = 0 the upwelling and downwelling passes are        *)
(* decoupled: whatever the order in which their steps run (U before D,     *)
(* D before U, or interleaved), each beam, once computed, equals the beam  *)
(* of the sequential two-pass algorithm.                                   *)
(***************************************************************************)
C12_DecoupledPasses ==
    (pc \in {"par", "par_sfc", "done"} /\ alpha_sfc = Zero) =>
        /\ (D # Empty => D = SeqD)
        /\ (U # Empty => U = SeqU)
        /\ (pc = "done" => (D # Empty /\ U # Empty))

C12_Witness ==
    /\ pc = "done"
    /\ alpha_sfc = Zero
    /\ order = <<"sfc", "U", "D">>
    /\ N = 2
    /\ RLt(Zero, D[0])
    /\ RLt(D[0], U[2])
    /\ U = SeqU

\* Sum over the bands 1..m, in index order, of level i of each band's beams.
RECURSIVE TotalU(_, _)
TotalU(i, m) == IF m = 0 THEN Zero ELSE RAdd(TotalU(i, m - 1), band[m].U[i])

RECURSIVE TotalD(_, _)
TotalD(i, m) == IF m = 0 THEN Zero ELSE RAdd(TotalD(i, m - 1), band[m].D[i])

(***************************************************************************)
(* C13: band aggregation.  Each band's beams are those of the grey gas     *)
(* solver on that band's own optical depth and band-scaled emissions, and  *)
(* the totals are U = sum_j U_j and D = sum_j D_j elementwise, whatever    *)
(* the order in which the band tasks completed.                            *)
(***************************************************************************)
C13_BandAggregation ==
    (pc = "summed") =>
        /\ \A j \in DOMAIN band :
            /\ band[j].D = BandD(band[j].tau, band[j].b, E, E_N, N)
            /\ band[j].U = BandU(band[j].tau, band[j].b, E, E_N, E_sfc,
                                 alpha_sfc, N)
        /\ DOMAIN U = Levels /\ DOMAIN D = Levels
        /\ \A i \in Levels :
            /\ U[i] = TotalU(i, Len(band))
            /\ D[i] = TotalD(i, Len(band))

C13_Witness ==
    /\ pc = "summed"
    /\ Len(band) = 2
    /\ order = <<2, 1>>
    /\ N = 1
    /\ band[1].tau # band[2].tau
    /\ band[1].U # band[2].U
    /\ RLt(Zero, band[1].U[1])
    /\ RLt(band[2].U[1], U[1])


(***************************************************************************)
(* What a solver with no call history returns for the inputs of the        *)
(* current call: t_i = exp(-dtau_i), D = T_down E_down and U = T_up E_up   *)
(* with up_sfc = E_sfc + alpha_sfc D[0].                                   *)
(***************************************************************************)
FreshT == [i \in 0..N |-> IF i = 0 THEN One ELSE ExpNeg(dtau[i - 1])]

FreshD == MatVec(T_down(FreshT, N), E_down(E, E_N, N), N)

FreshU ==
    MatVec(T_up(FreshT, N),
           E_up(E, RAdd(E_sfc, RMul(alpha_sfc, FreshD[0])), N), N)

====
